---------------------------- MODULE Spec2Model ----------------------------
(***************************************************************************)
(* State-machine model of the batch pipeline of ppdet/data:                *)
(*   dataloader.py  _SingleWorkerLoaderIter, _MultiWorkerLoaderIter,       *)
(*                  the pool workers, the fetcher thread, DataLoader       *)
(*   __init__.py    DataLoaderBuilder.__next__ (the multi-device step),    *)
(*                  ExtractFields, DataLoaderBuilder._merge_seq_length     *)
(* The sampler class lives in ppdet/data/samplers.py, which is not part of *)
(* the sources at hand; it is modelled from its contract (an iterator of   *)
(* index groups that reset() re-arms).                                     *)
(* Thread workers (multiprocessing=False) are modelled.                    *)
(***************************************************************************)
EXTENDS Integers, Sequences, FiniteSets, TLC

\* ------------------------------------------------------------------ bounds
\* index groups per pass of the sampler: 0..MaxGroups
MaxGroups == 3
\* DataLoader.num_workers: 0..MaxWorkers
MaxWorkers == 2
\* DataLoader.queue_depth: 1..MaxQueueDepth
MaxQueueDepth == 2
\* index groups per pass over an iterable dataset: 0..MaxStreamGroups
MaxStreamGroups == 2
\* iter() calls on one loader
MaxPasses == 2
\* places (device lanes) of a DataLoaderBuilder: 1..MaxLanes
MaxLanes == 3
\* steps of a DataLoaderBuilder with auto_reset (it never ends by itself)
MaxSteps == 3
\* index groups per pass under a DataLoaderBuilder whose iterator is the
\* single-threaded one: 0..MaxSingleGroups
MaxSingleGroups == 7

\* index groups of the sampler where the behaviour starts at the constructor
MaxLifeGroups == 1
\* samples of the dataset a mixup chain runs over (one per index group)
MaxMixSamples == 3
\* entries of one sequence of a ragged field: 0..MaxSeqLen
MaxSeqLen == 2

\* the samples of a collated group, the declared batch transforms of a loader
MaxCollate == 2
MaxBatchTransforms == 2

\* the depths of the output specs of a collated group
CollateLodLevels == {0, 1}

\* dataset indices in one index group
BatchSizes == {2}
\* lod_level of the extracted field
LodLevels == {0, 1, 2}
\* samples of the batch of each place, for the places a step has pulled
FieldBatches == {<<1>>, <<2>>, <<1, 1>>, <<1, 1, 1>>}
\* DataLoader.rank
Ranks == {0, 1}

\* Python's None (no seed, no ids, no batch)
None == <<>>

Max(a, b) == IF a >= b THEN a ELSE b

Range(f) == {f[x] : x \in DOMAIN f}

EmptyMap == [i \in {} |-> None]

VARIABLES
    loader,        \* DataLoader fields: mode, num_workers, queue_depth, rank,
                   \* need_seeding, callback, batch_size
    sampler,       \* [len, step]: groups per pass, groups handed out this pass
    bad,           \* samples (dataset index / stream position) a transform raises on
    stream,        \* position of the iterable dataset's stream
    sent_idx,      \* _MultiWorkerLoaderIter._sent_idx
    recv_idx,      \* _MultiWorkerLoaderIter._recv_idx
    buffer,        \* _MultiWorkerLoaderIter._buffer: idx -> result
    worker_queue,  \* _MultiWorkerLoaderIter._worker_queue: <<idx, result>> items
    tasks,         \* tickets handed to apply_async, not yet taken by a worker
    running,       \* tickets a pool worker is processing
    failed,        \* tickets whose worker function raised (kept in the AsyncResult)
    fetcher,       \* the fetcher thread: [pc, item]
    pool_state,    \* "none" (no pool) or the pool's state
    batch_idx,     \* _SingleWorkerLoaderIter._batch_idx
    pc,            \* where the consumer's next() call stands
    topup_left,    \* remaining iterations of the top-up loop of __next__
    out,           \* batches next() has returned in this pass, with the key popped
    pass_log,      \* per finished pass: batches returned, and whether reset() ran
    builder,       \* DataLoaderBuilder fields: auto_reset, places (lanes); the
                   \* loader is used without the builder when places = 0
    cpc,           \* where DataLoaderBuilder.__next__ stands ("direct": not used)
    lane,          \* the place the for loop of __next__ is at (1..places)
    feed_list,     \* __next__'s feed_list
    extras,        \* __next__'s coalesced_extra_dict (one auxiliary field)
    drained,       \* __next__'s _drained
    steps,         \* what the finished __next__ calls returned
    lock,          \* _MultiWorkerLoaderIter._buffer_lock: its holder, or "free"
    cache,         \* dataset.samples (when the dataset has it): per index, the
                   \* index whose image file was last read into the entry's
                   \* 'image' key, or NoImage while the entry has no such key
    config,        \* the arguments of the constructor call, where the
                   \* behaviour starts before construction
    field_in,      \* per place, the batch value of one ragged field
    field_out,     \* per place, the (ndarray, seq_length) ExtractFields returns
    field_merged,  \* the coalesced [ndarray, seq_length] of the field
    pairs,         \* ticket idx -> idx2, for the workers between the write of
                   \* sample2['image'] and the transform call
    samples_in,    \* the transformed samples _Batchify is called on
    batch_dict,    \* _Batchify.__call__'s batch_dict: the per-field lists, and
                   \* the batch transforms that have been applied to it
    chain,         \* the transforms the for loop of _Batchify has yet to apply
    extracted      \* what ExtractFields.__call__ returned (or raised)

coalVars == <<cpc, lane, feed_list, extras, drained, steps>>

extVars == <<lock, cache, config, field_in, field_out, field_merged, pairs>>

colVars == <<samples_in, batch_dict, chain, extracted>>

vars == <<loader, sampler, bad, stream, sent_idx, recv_idx, buffer, worker_queue,
          tasks, running, failed, fetcher, pool_state, batch_idx, pc, topup_left,
          out, pass_log, builder, coalVars, extVars, colVars>>

\* ----------------------------------------------------------------- sampler
\* the k-th index group of a pass (k = 1..len)
GroupOf(k, bs) == [j \in 1..bs |-> (k - 1) * bs + j - 1]

\* next(sampler): the next index group, or None once the pass is over
SamplerNext(s, bs) == IF s.step < s.len THEN GroupOf(s.step + 1, bs) ELSE None

SamplerAdvance(s) == IF s.step < s.len THEN [s EXCEPT !.step = s.step + 1] ELSE s

\* sampler.reset()
SamplerReset(s) == [s EXCEPT !.step = 0]

\* ------------------------------------------------------- per-sample fetch
\* _apply_transform: the sample the chain returns for dataset index i
\* (indexable) or for the stream item at position pos (iterable)
ApplyTransform(i, pos, mode, batch_seed) ==
    IF mode = "iterable"
    THEN [src |-> pos, batch_seed |-> None]
    ELSE [src |-> i, batch_seed |-> batch_seed]

\* the source a call of _apply_transform reads
SourceOf(i, pos, mode) == IF mode = "iterable" THEN pos ELSE i

\* _Batchify.__call__ followed by the callback, when one is set
Batchify(ids, samples) == [ids |-> ids, samples |-> samples, callback |-> FALSE]

Callback(ld, result) == IF ld.callback THEN [result EXCEPT !.callback = TRUE] ELSE result

\* ----------------------------------------------------------- ExtractFields
\* ExtractFields._flatten: _recurse(data, result, level), where result[0] is
\* seq_length[depth]; acc is (flat, seq_length) as the calls so far left them
RECURSIVE Recurse(_, _, _, _)
RECURSIVE RecurseItems(_, _, _, _)
Recurse(data, acc, depth, level) ==
    IF level = 0
    THEN [acc EXCEPT !.flat = Append(@, data)]
    ELSE RecurseItems(data,
                      [acc EXCEPT !.seq_length[depth] = Append(@, Len(data))],
                      depth + 1, level - 1)

\* the for loop of _recurse over the items of data
RecurseItems(items, acc, depth, level) ==
    IF items = <<>>
    THEN acc
    ELSE RecurseItems(Tail(items), Recurse(Head(items), acc, depth, level),
                      depth, level)

Flatten(arr, lod_level) ==
    Recurse(arr, [flat |-> <<>>, seq_length |-> [d \in 1..lod_level |-> <<>>]],
            1, lod_level)

\* mutant: the outermost length list is returned with the others
ExtractFieldKeepOuter(arr, lod_level) ==
    IF lod_level = 0
    THEN [ndarray |-> arr, seq_length |-> None]
    ELSE LET r == Flatten(arr, lod_level + 1)
         IN [ndarray |-> r.flat, seq_length |-> r.seq_length]

\* ExtractFields.__call__ for a feed var of one field: (ndarray, seq_length);
\* with lod_level 0 the samples' arrays are stacked, one row per sample
ExtractField(arr, lod_level) ==
    IF lod_level = 0
    THEN [ndarray |-> arr, seq_length |-> None]
    ELSE LET r == Flatten(arr, lod_level + 1)
         IN [ndarray |-> r.flat, seq_length |-> Tail(r.seq_length)]

\* mutant: the lengths of the first place are returned as they are
MergeSeqLengthFirst(seq_lengths) == seq_lengths[1]

\* DataLoaderBuilder._merge_seq_length: v += rest[idx] extends the list v
RECURSIVE MergeSeqLength(_)
MergeSeqLength(seq_lengths) ==
    IF seq_lengths[1] = None
    THEN None
    ELSE IF Len(seq_lengths) = 1
    THEN seq_lengths[1]
    ELSE LET results == seq_lengths[1]
             rest == seq_lengths[2]
         IN MergeSeqLength(
              <<[idx \in DOMAIN results |-> results[idx] \o rest[idx]]>>
                \o SubSeq(seq_lengths, 3, Len(seq_lengths)))

\* the shapes of the ragged values of depth level whose sequences have
\* 0..MaxSeqLen entries
RECURSIVE Shapes(_)
Shapes(level) ==
    IF level = 0
    THEN {0}
    ELSE UNION {[1..n -> Shapes(level - 1)] : n \in 0..MaxSeqLen}

\* the ragged value of a shape: each leaf is the path that leads to it
RECURSIVE Label(_, _, _)
Label(shape, level, path) ==
    IF level = 0
    THEN path
    ELSE [i \in 1..Len(shape) |-> Label(shape[i], level - 1, Append(path, i))]

\* ------------------------------------------------------------- batch seed
SingleBatchSeed(ld, bidx) ==
    IF ld.need_seeding THEN <<(bidx + 1) * (ld.rank + 1)>> ELSE None

\* mutant: the rank is used as it is, without the shift by one
MultiBatchSeedNoShift(ld, sidx) ==
    IF ld.need_seeding THEN <<(sidx + 1) * ld.rank>> ELSE None

MultiBatchSeed(ld, sidx) ==
    IF ld.need_seeding THEN <<(sidx + 1) * (ld.rank + 1)>> ELSE None

\* --------------------------------------------------- _MultiWorkerLoaderIter
\* mutant: the last index group of a pass is pulled and not dispatched
QueueNextStateDropLast(ld, st) ==
    LET ids == SamplerNext(st.sampler, ld.batch_size)
    IN IF ids = None
       THEN st
       ELSE IF st.sampler.step + 1 = st.sampler.len
       THEN [st EXCEPT !.sampler = SamplerAdvance(st.sampler)]
       ELSE [sampler |-> SamplerAdvance(st.sampler),
             tasks |-> Append(st.tasks, [idx |-> st.sent_idx, ids |-> ids,
                                          batch_seed |-> MultiBatchSeed(ld, st.sent_idx)]),
             sent_idx |-> st.sent_idx + 1]

\* _queue_next on the state (sampler, tasks, sent_idx)
QueueNextState(ld, st) ==
    LET ids == SamplerNext(st.sampler, ld.batch_size)
    IN IF ids = None
       THEN st
       ELSE [sampler |-> SamplerAdvance(st.sampler),
             tasks |-> Append(st.tasks, [idx |-> st.sent_idx, ids |-> ids,
                                          batch_seed |-> MultiBatchSeed(ld, st.sent_idx)]),
             sent_idx |-> st.sent_idx + 1]

RECURSIVE QueueNextTimes(_, _, _)
QueueNextTimes(ld, st, n) ==
    IF n <= 0 THEN st ELSE QueueNextTimes(ld, QueueNextState(ld, st), n - 1)

\* mutant: the top-up loop runs once more
TopUpCountOneMore(ld, recv, sent) == Max(0, ld.queue_depth + 2 + recv - sent)

\* the number of _queue_next calls __next__ makes before it looks at the buffer
TopUpCount(ld, recv, sent) == Max(0, ld.queue_depth + 1 + recv - sent)

\* mutant: end-of-stream is signalled with one ticket still in flight
IsDrainedEarly(recv, sent) == recv + 1 >= sent

\* the end-of-stream test of __next__
IsDrained(recv, sent) == recv = sent

\* __init__: the state after construction (queue_depth tickets pre-dispatched)
MultiInitState(ld, s) ==
    QueueNextTimes(ld, [sampler |-> s, tasks |-> <<>>, sent_idx |-> 0], ld.queue_depth)

\* mutant: the queue counts as full one entry early
QueueFullTooEarly(ld, q) == ld.queue_depth > 0 /\ Len(q) >= ld.queue_depth - 1

\* the completion queue is Queue(queue_depth): unbounded when queue_depth <= 0
QueueFull(ld, q) == ld.queue_depth > 0 /\ Len(q) >= ld.queue_depth

\* mutant: the wait loop takes whichever result is in the buffer
ReadyKeysAny(buf, recv) == DOMAIN buf

\* the keys the wait loop of __next__ pops: recv_idx, once it is in the buffer
ReadyKeys(buf, recv) == IF recv \in DOMAIN buf THEN {recv} ELSE {}

IsPooled(ld) == ld.num_workers > 0

\* who may start a next() call of the iterator: the consumer itself ("direct"),
\* or DataLoaderBuilder.__next__ at its two next(self._iter) calls
Callers == {"direct", "call", "recall"}

AfterCall(c) == IF c = "call" THEN "try" ELSE IF c = "recall" THEN "retry" ELSE c

\* -------------------------------------------------------------------- Init
\* the DataLoader configurations over a dataset of the given mode
Loaders(mode) ==
    [mode : {mode},
     num_workers : 0..MaxWorkers,
     queue_depth : 1..MaxQueueDepth,
     rank : Ranks,
     need_seeding : BOOLEAN,
     callback : BOOLEAN,
     batch_size : BatchSizes]

\* iter(loader) on a loader whose sampler is s
IterState(ld, s) ==
    IF IsPooled(ld)
    THEN LET st == MultiInitState(ld, s)
         IN [sampler |-> st.sampler, tasks |-> st.tasks, sent_idx |-> st.sent_idx,
             pool_state |-> "RUN"]
    ELSE [sampler |-> s, tasks |-> <<>>, sent_idx |-> 0, pool_state |-> "none"]

\* the state after DataLoader(...) and iter(loader), for a sampler of k index
\* groups and a set of samples the transform chain raises on
InitWith(ld, k, badset) ==
    /\ loader = ld
    /\ LET st == IterState(ld, [len |-> k, step |-> 0])
       IN /\ sampler = st.sampler
          /\ tasks = st.tasks
          /\ sent_idx = st.sent_idx
          /\ pool_state = st.pool_state
    /\ bad = badset
    /\ stream = 0
    /\ recv_idx = 0
    /\ buffer = EmptyMap
    /\ worker_queue = <<>>
    /\ running = {}
    /\ failed = {}
    /\ fetcher = [pc |-> "get", item |-> None]
    /\ batch_idx = 0
    /\ pc = "idle"
    /\ topup_left = 0
    /\ out = <<>>
    /\ pass_log = <<>>
    /\ lane = 0
    /\ feed_list = <<>>
    /\ extras = <<>>
    /\ drained = FALSE
    /\ steps = <<>>

\* no batch is being collated
ColIdle ==
    /\ samples_in = <<>>
    /\ batch_dict = None
    /\ chain = <<>>
    /\ extracted = None

\* the variables a behaviour does not use
ExtIdle ==
    /\ ColIdle
    /\ lock = "free"
    /\ cache = <<>>
    /\ config = None
    /\ field_in = <<>>
    /\ field_out = <<>>
    /\ field_merged = None
    /\ pairs = EmptyMap

\* at most one malformed sample among those of k index groups
BadSets(k, bs) == {{}} \cup {{i} : i \in 0..(k * bs - 1)}

\* a DataLoader over an indexable dataset, iterated by its consumer
Init ==
    /\ \E ld \in Loaders("indexable"), k \in 0..MaxGroups :
         \E badset \in BadSets(k, ld.batch_size) : InitWith(ld, k, badset)
    /\ builder = [auto_reset |-> FALSE, places |-> 0]
    /\ cpc = "direct"
    /\ ExtIdle

\* a DataLoader over an iterable dataset, iterated by its consumer
StreamInit ==
    /\ \E ld \in Loaders("iterable"), k \in 0..MaxStreamGroups :
         /\ ld.rank = 0
         /\ InitWith(ld, k, {})
    /\ builder = [auto_reset |-> FALSE, places |-> 0]
    /\ cpc = "direct"
    /\ ExtIdle

\* ------------------------------------------------------------ pool workers
\* a pool worker takes the oldest ticket
WorkerTake ==
    /\ tasks /= <<>>
    /\ Cardinality(running) < loader.num_workers
    /\ running' = running \cup {[ticket |-> Head(tasks), samples |-> <<>>]}
    /\ tasks' = Tail(tasks)
    /\ UNCHANGED <<colVars, extVars, loader, sampler, bad, stream, sent_idx, recv_idx, buffer,
                   worker_queue, failed, fetcher, pool_state, batch_idx, pc,
                   topup_left, out, pass_log, builder, coalVars>>

\* _thread_worker_fn: one _apply_transform call of the list comprehension;
\* an exception ends the task (apply_async keeps it in the AsyncResult)
WorkerApply ==
    \E w \in running :
      /\ Len(w.samples) < Len(w.ticket.ids)
      /\ LET i == w.ticket.ids[Len(w.samples) + 1]
             src == SourceOf(i, stream, loader.mode)
             sample == ApplyTransform(i, stream, loader.mode, w.ticket.batch_seed)
         IN /\ stream' = IF loader.mode = "iterable" THEN stream + 1 ELSE stream
            /\ IF src \in bad
               THEN /\ running' = running \ {w}
                    /\ failed' = failed \cup {w.ticket.idx}
               ELSE /\ running' = (running \ {w}) \cup
                                    {[w EXCEPT !.samples = Append(w.samples, sample)]}
                    /\ failed' = failed
      /\ UNCHANGED <<colVars, extVars, loader, sampler, bad, sent_idx, recv_idx, buffer, worker_queue,
                     tasks, fetcher, pool_state, batch_idx, pc, topup_left, out,
                     pass_log, builder, coalVars>>

\* _thread_worker_fn: batchify, then queue.put((idx, result)), which blocks
\* while the queue is full
WorkerPut ==
    \E w \in running :
      /\ Len(w.samples) = Len(w.ticket.ids)
      /\ ~QueueFull(loader, worker_queue)
      /\ worker_queue' = Append(worker_queue,
                                [idx |-> w.ticket.idx,
                                 result |-> Batchify(w.ticket.ids, w.samples)])
      /\ running' = running \ {w}
      /\ UNCHANGED <<colVars, extVars, loader, sampler, bad, stream, sent_idx, recv_idx, buffer, tasks,
                     failed, fetcher, pool_state, batch_idx, pc, topup_left, out,
                     pass_log, builder, coalVars>>

\* ----------------------------------------------------------------- fetcher
\* _fetcher_loop_fn: worker_queue.get(), then the callback
FetcherGet ==
    /\ pool_state = "RUN"
    /\ fetcher.pc = "get"
    /\ worker_queue /= <<>>
    /\ fetcher' = [pc |-> "insert",
                   item |-> [idx |-> Head(worker_queue).idx,
                             result |-> Callback(loader, Head(worker_queue).result)]]
    /\ worker_queue' = Tail(worker_queue)
    /\ UNCHANGED <<colVars, extVars, loader, sampler, bad, stream, sent_idx, recv_idx, buffer, tasks,
                   running, failed, pool_state, batch_idx, pc, topup_left, out,
                   pass_log, builder, coalVars>>

\* _fetcher_loop_fn: out_buffer[idx] = result under the lock, then loop
FetcherInsert ==
    /\ fetcher.pc = "insert"
    /\ buffer' = [i \in DOMAIN buffer \cup {fetcher.item.idx} |->
                    IF i = fetcher.item.idx THEN fetcher.item.result ELSE buffer[i]]
    /\ fetcher' = [pc |-> "get", item |-> None]
    /\ UNCHANGED <<colVars, extVars, loader, sampler, bad, stream, sent_idx, recv_idx, worker_queue,
                   tasks, running, failed, pool_state, batch_idx, pc, topup_left,
                   out, pass_log, builder, coalVars>>

\* ------------------------------------------ _MultiWorkerLoaderIter.__next__
\* the call starts: the range of the top-up loop is evaluated
MultiNextBegin ==
    /\ IsPooled(loader)
    /\ pc \in {"idle", "stopped"}
    /\ cpc \in Callers
    /\ cpc' = AfterCall(cpc)
    /\ pc' = "topup"
    /\ topup_left' = TopUpCount(loader, recv_idx, sent_idx)
    /\ UNCHANGED <<colVars, extVars, loader, sampler, bad, stream, sent_idx, recv_idx, buffer,
                   worker_queue, tasks, running, failed, fetcher, pool_state,
                   batch_idx, out, pass_log, builder, lane, feed_list, extras,
                   drained, steps>>

\* one iteration of the top-up loop: _queue_next()
MultiTopUp ==
    /\ pc = "topup"
    /\ topup_left > 0
    /\ LET st == QueueNextState(loader, [sampler |-> sampler, tasks |-> tasks,
                                          sent_idx |-> sent_idx])
       IN /\ sampler' = st.sampler
          /\ tasks' = st.tasks
          /\ sent_idx' = st.sent_idx
    /\ topup_left' = topup_left - 1
    /\ UNCHANGED <<colVars, extVars, loader, bad, stream, recv_idx, buffer, worker_queue, running,
                   failed, fetcher, pool_state, batch_idx, pc, out, pass_log, builder, coalVars>>

\* after the loop: end-of-stream (with its assertion), or wait for recv_idx
MultiCheck ==
    /\ pc = "topup"
    /\ topup_left = 0
    /\ pc' = IF IsDrained(recv_idx, sent_idx)
             THEN (IF DOMAIN buffer /= {} THEN "assert_failed" ELSE "stopped")
             ELSE "wait"
    /\ UNCHANGED <<colVars, extVars, loader, sampler, bad, stream, sent_idx, recv_idx, buffer,
                   worker_queue, tasks, running, failed, fetcher, pool_state,
                   batch_idx, topup_left, out, pass_log, builder, coalVars>>

\* the wait loop finds recv_idx in the buffer: pop it and return it
MultiReceive ==
    /\ pc = "wait"
    /\ \E key \in ReadyKeys(buffer, recv_idx) :
         /\ out' = Append(out, [key |-> key, batch |-> buffer[key]])
         /\ buffer' = [i \in DOMAIN buffer \ {key} |-> buffer[i]]
    /\ recv_idx' = recv_idx + 1
    /\ pc' = "idle"
    /\ UNCHANGED <<colVars, extVars, loader, sampler, bad, stream, sent_idx, worker_queue, tasks,
                   running, failed, fetcher, pool_state, batch_idx, topup_left,
                   pass_log, builder, coalVars>>

\* ------------------------------------------ _SingleWorkerLoaderIter.__next__
\* the list comprehension over ids: the samples built before the first
\* exception, the stream position reached, and whether a transform raised
RECURSIVE SingleSamples(_, _, _, _, _, _)
SingleSamples(ids, pos, mode, batch_seed, badset, acc) ==
    IF Len(acc) = Len(ids)
    THEN [samples |-> acc, stream |-> pos, raised |-> FALSE]
    ELSE LET i == ids[Len(acc) + 1]
             npos == IF mode = "iterable" THEN pos + 1 ELSE pos
         IN IF SourceOf(i, pos, mode) \in badset
            THEN [samples |-> acc, stream |-> npos, raised |-> TRUE]
            ELSE SingleSamples(ids, npos, mode, batch_seed, badset,
                               Append(acc, ApplyTransform(i, pos, mode, batch_seed)))

\* what one __next__ call does to (sampler, stream, batch_idx) and what it
\* gives the caller: a batch, StopIteration ("stopped") or the exception
SingleNextState(ld, s, pos, bidx, badset) ==
    LET ids == SamplerNext(s, ld.batch_size)
        r == SingleSamples(ids, pos, ld.mode, SingleBatchSeed(ld, bidx), badset, <<>>)
    IN IF ids = None
       THEN [sampler |-> s, stream |-> pos, batch_idx |-> bidx, pc |-> "stopped",
             batch |-> None]
       ELSE IF r.raised
       THEN [sampler |-> SamplerAdvance(s), stream |-> r.stream, batch_idx |-> bidx,
             pc |-> "fault", batch |-> None]
       ELSE [sampler |-> SamplerAdvance(s), stream |-> r.stream,
             batch_idx |-> bidx + 1, pc |-> "idle",
             batch |-> Callback(ld, Batchify(ids, r.samples))]

SingleNext ==
    /\ ~IsPooled(loader)
    /\ pc \in {"idle", "stopped"}
    /\ cpc \in Callers
    /\ cpc' = AfterCall(cpc)
    /\ LET st == SingleNextState(loader, sampler, stream, batch_idx, bad)
       IN /\ sampler' = st.sampler
          /\ stream' = st.stream
          /\ batch_idx' = st.batch_idx
          /\ pc' = st.pc
          /\ out' = IF st.pc = "idle"
                    THEN Append(out, [key |-> batch_idx, batch |-> st.batch])
                    ELSE out
    /\ UNCHANGED <<colVars, extVars, loader, bad, sent_idx, recv_idx, buffer, worker_queue, tasks,
                   running, failed, fetcher, pool_state, topup_left, pass_log,
                   builder, lane, feed_list, extras, drained, steps>>

\* ------------------------------------------------------------ the consumer
\* the consumer drops the loader between two next() calls
Abandon ==
    /\ cpc = "direct"
    /\ pc = "idle"
    /\ pc' = "abandoned"
    /\ UNCHANGED <<colVars, extVars, loader, sampler, bad, stream, sent_idx, recv_idx, buffer,
                   worker_queue, tasks, running, failed, fetcher, pool_state,
                   batch_idx, topup_left, out, pass_log, builder, coalVars>>

\* after end-of-stream: DataLoader.reset() (or not), then DataLoader.__iter__(),
\* which builds a new iterator over the same sampler
IterAgain ==
    /\ cpc = "direct"
    /\ pc = "stopped"
    /\ Len(pass_log) + 1 < MaxPasses
    /\ \E rearm \in BOOLEAN :
         LET s == IF rearm THEN SamplerReset(sampler) ELSE sampler
             st == IterState(loader, s)
         IN /\ sampler' = st.sampler
            /\ tasks' = st.tasks
            /\ sent_idx' = st.sent_idx
            /\ pool_state' = st.pool_state
            /\ pass_log' = Append(pass_log, [n |-> Len(out), rearm |-> rearm])
    /\ recv_idx' = 0
    /\ buffer' = EmptyMap
    /\ worker_queue' = <<>>
    /\ running' = {}
    /\ fetcher' = [pc |-> "get", item |-> None]
    /\ batch_idx' = 0
    /\ pc' = "idle"
    /\ topup_left' = 0
    /\ out' = <<>>
    /\ UNCHANGED <<colVars, extVars, loader, bad, stream, failed, builder, coalVars>>

\* ------------------------------------------------------- DataLoaderBuilder
Min(a, b) == IF a <= b THEN a ELSE b

\* DataLoaderBuilder.__init__: the DataLoader fields the positional super()
\* call sets (callback_fn receives an int, which is not callable; rank is
\* left at its default)
BuilderLoader(a) ==
    [mode |-> a.mode,
     num_workers |-> a.num_devices,
     queue_depth |-> IF a.trainers_env THEN a.buffer_size
                     ELSE Min(a.num_devices * a.buffer_size, 8),
     rank |-> 0,
     need_seeding |-> a.need_seeding,
     callback |-> FALSE,
     batch_size |-> a.batch_size]

\* the (feed_dict, extra_dict) pair a batch is for __next__: the rows of the
\* fed array and the values of the auxiliary field, one per sample
FeedOf(batch) == [j \in DOMAIN batch.samples |-> batch.samples[j].src]

ExtraOf(batch) == [j \in DOMAIN batch.samples |-> batch.samples[j].src]

RECURSIVE Concatenate(_)
Concatenate(arrays) ==
    IF arrays = <<>> THEN <<>> ELSE Head(arrays) \o Concatenate(Tail(arrays))

\* the place the drained tail is put on: fluid.CPUPlace()
CPUPlace == 0

\* mutant: a drained tail is returned per place, never coalesced
StepResultSplit(fl, ex, dr, places) ==
    IF dr /\ Len(fl) = 0
    THEN None
    ELSE [kind |-> "per_lane", feed |-> fl, place |-> None, extra |-> ex]

\* __next__ after its for loop: StopIteration (None), the coalesced record of
\* a drained tail, or one record per place
StepResult(fl, ex, dr, places) ==
    IF dr /\ Len(fl) = 0
    THEN None
    ELSE IF dr /\ Len(fl) /= places
    THEN [kind |-> "coalesced",
          feed |-> IF Len(fl) = 1 THEN fl[1].feed
                   ELSE Concatenate([j \in DOMAIN fl |-> fl[j].feed]),
          place |-> CPUPlace,
          extra |-> ex]
    ELSE [kind |-> "per_lane", feed |-> fl, place |-> None, extra |-> ex]

\* mutant: coalesced_extra_dict is kept from the previous call
CoalBeginKeepExtras ==
    /\ cpc \in {"ready", "stopped"}
    /\ builder.auto_reset => Len(steps) < MaxSteps
    /\ cpc' = "call"
    /\ lane' = 1
    /\ feed_list' = <<>>
    /\ drained' = FALSE
    /\ UNCHANGED <<colVars, extVars, loader, sampler, bad, stream, sent_idx, recv_idx, buffer,
                   worker_queue, tasks, running, failed, fetcher, pool_state,
                   batch_idx, pc, topup_left, out, pass_log, builder, steps, extras>>

\* __next__ starts: the locals are initialised and the loop enters place 1
CoalBegin ==
    /\ cpc \in {"ready", "stopped"}
    /\ builder.auto_reset => Len(steps) < MaxSteps
    /\ cpc' = "call"
    /\ lane' = 1
    /\ feed_list' = <<>>
    /\ extras' = <<>>
    /\ drained' = FALSE
    /\ UNCHANGED <<colVars, extVars, loader, sampler, bad, stream, sent_idx, recv_idx, buffer,
                   worker_queue, tasks, running, failed, fetcher, pool_state,
                   batch_idx, pc, topup_left, out, pass_log, builder, steps>>

\* next(self._iter) returned a batch (in the try or in the except clause): the
\* finally clause appends it for this place, and the loop goes on
CoalGot ==
    /\ cpc \in {"try", "retry"}
    /\ pc = "idle"
    /\ LET batch == out[Len(out)].batch
       IN /\ feed_list' = Append(feed_list, [feed |-> FeedOf(batch), place |-> lane])
          /\ extras' = extras \o ExtraOf(batch)
    /\ lane' = lane + 1
    /\ cpc' = IF lane + 1 > builder.places THEN "finish" ELSE "call"
    /\ UNCHANGED <<colVars, extVars, loader, sampler, bad, stream, sent_idx, recv_idx, buffer,
                   worker_queue, tasks, running, failed, fetcher, pool_state,
                   batch_idx, pc, topup_left, out, pass_log, builder, drained, steps>>

\* mutant: the except clause calls next(self._iter) without self.reset()
CoalResetNoRearm ==
    /\ cpc = "try"
    /\ pc = "stopped"
    /\ builder.auto_reset
    /\ cpc' = "recall"
    /\ UNCHANGED <<colVars, extVars, loader, sampler, bad, stream, sent_idx, recv_idx, buffer,
                   worker_queue, tasks, running, failed, fetcher, pool_state,
                   batch_idx, pc, topup_left, out, pass_log, builder, lane,
                   feed_list, extras, drained, steps>>

\* StopIteration in the try clause with auto_reset: self.reset(), and the
\* except clause is about to call next(self._iter) again
CoalReset ==
    /\ cpc = "try"
    /\ pc = "stopped"
    /\ builder.auto_reset
    /\ sampler' = SamplerReset(sampler)
    /\ cpc' = "recall"
    /\ UNCHANGED <<colVars, extVars, loader, bad, stream, sent_idx, recv_idx, buffer, worker_queue,
                   tasks, running, failed, fetcher, pool_state, batch_idx, pc,
                   topup_left, out, pass_log, builder, lane, feed_list, extras,
                   drained, steps>>

\* StopIteration in the try clause without auto_reset: _drained, and the
\* finally clause breaks out of the loop
CoalDrain ==
    /\ cpc = "try"
    /\ pc = "stopped"
    /\ ~builder.auto_reset
    /\ drained' = TRUE
    /\ cpc' = "finish"
    /\ UNCHANGED <<colVars, extVars, loader, sampler, bad, stream, sent_idx, recv_idx, buffer,
                   worker_queue, tasks, running, failed, fetcher, pool_state,
                   batch_idx, pc, topup_left, out, pass_log, builder, lane,
                   feed_list, extras, steps>>

\* an exception leaves __next__: StopIteration raised again by the call in the
\* except clause (the sampler is empty), or the fault of a transform
CoalRaise ==
    /\ \/ cpc = "retry" /\ pc = "stopped"
       \/ cpc \in {"try", "retry"} /\ pc = "fault"
    /\ cpc' = "error"
    /\ UNCHANGED <<colVars, extVars, loader, sampler, bad, stream, sent_idx, recv_idx, buffer,
                   worker_queue, tasks, running, failed, fetcher, pool_state,
                   batch_idx, pc, topup_left, out, pass_log, builder, lane,
                   feed_list, extras, drained, steps>>

\* the code after the loop: raise StopIteration, or return the step
CoalFinish ==
    /\ cpc = "finish"
    /\ LET r == StepResult(feed_list, extras, drained, builder.places)
       IN IF r = None
          THEN /\ cpc' = "stopped"
               /\ steps' = steps
          ELSE /\ cpc' = "ready"
               /\ steps' = Append(steps, r)
    /\ UNCHANGED <<colVars, extVars, loader, sampler, bad, stream, sent_idx, recv_idx, buffer,
                   worker_queue, tasks, running, failed, fetcher, pool_state,
                   batch_idx, pc, topup_left, out, pass_log, builder, lane,
                   feed_list, extras, drained>>

\* (an indexable dataset: what a step holds is then decided by the sampler)
BuilderArgs ==
    [mode : {"indexable"},
     places : 1..MaxLanes,
     num_devices : 0..MaxLanes,
     buffer_size : 1..MaxQueueDepth,
     trainers_env : BOOLEAN,
     need_seeding : BOOLEAN,
     batch_size : BatchSizes]

\* a DataLoaderBuilder after __init__ and __iter__
CoalInit ==
    /\ \E a \in BuilderArgs, ar \in BOOLEAN, k \in 0..Max(MaxGroups, MaxSingleGroups) :
         /\ a.num_devices \in {0, a.places}
         /\ k <= (IF a.num_devices = 0 THEN MaxSingleGroups ELSE MaxGroups)
         /\ InitWith(BuilderLoader(a), k, {})
         /\ builder = [auto_reset |-> ar, places |-> a.places]
    /\ cpc = "ready"
    /\ ExtIdle

\* ---------------------------------------------- one ragged field of a step
\* the fields of a loader that is not built
NoLoader ==
    [mode |-> "none", num_workers |-> 0, queue_depth |-> 0, rank |-> 0,
     need_seeding |-> FALSE, callback |-> FALSE, batch_size |-> 0]

\* no loader is built (yet): its fields and its iterator's do not exist
Unbuilt ==
    /\ loader = NoLoader
    /\ sampler = None
    /\ bad = {}
    /\ stream = 0
    /\ sent_idx = 0
    /\ recv_idx = 0
    /\ buffer = EmptyMap
    /\ worker_queue = <<>>
    /\ tasks = <<>>
    /\ running = {}
    /\ failed = {}
    /\ fetcher = [pc |-> "none", item |-> None]
    /\ pool_state = "none"
    /\ batch_idx = 0
    /\ topup_left = 0
    /\ out = <<>>
    /\ pass_log = <<>>
    /\ lane = 0
    /\ feed_list = <<>>
    /\ extras = <<>>
    /\ drained = FALSE
    /\ steps = <<>>

\* the batches of the places a drained step has pulled, seen through one feed
\* var of one field: batch[f] is a list with one ragged value per sample
FieldInit ==
    /\ Unbuilt
    /\ ColIdle
    /\ pc = "none"
    /\ builder = [auto_reset |-> FALSE, places |-> 0]
    /\ cpc = "direct"
    /\ lock = "free"
    /\ cache = <<>>
    /\ pairs = EmptyMap
    /\ \E lod_level \in LodLevels, sizes \in FieldBatches :
         /\ Len(sizes) >= 3 => lod_level <= 1
         /\ config = [lod_level |-> lod_level]
         /\ \E shapes \in [UNION {{<<l, k>> : k \in 1..sizes[l]} : l \in DOMAIN sizes}
                              -> Shapes(lod_level)] :
              field_in = [l \in DOMAIN sizes |->
                            [k \in 1..sizes[l] |->
                               Label(shapes[<<l, k>>], lod_level, <<l, k>>)]]
    /\ field_out = <<>>
    /\ field_merged = None

\* ExtractFields.__call__ on the batch of the next place
ExtractLane ==
    /\ Len(field_out) < Len(field_in)
    /\ field_out' = Append(field_out,
                           ExtractField(field_in[Len(field_out) + 1], config.lod_level))
    /\ UNCHANGED <<colVars, loader, sampler, bad, stream, sent_idx, recv_idx, buffer,
                   worker_queue, tasks, running, failed, fetcher, pool_state,
                   batch_idx, pc, topup_left, out, pass_log, builder, coalVars,
                   lock, cache, config, field_in, field_merged, pairs>>

\* __next__, drained with two or more places pulled: np.concatenate of the
\* arrays and _merge_seq_length of the lengths, which extends the lists of
\* the first place's record in place
CoalesceField ==
    /\ Len(field_out) = Len(field_in)
    /\ Len(field_out) >= 2
    /\ field_merged = None
    /\ LET merged == MergeSeqLength([l \in DOMAIN field_out |-> field_out[l].seq_length])
       IN /\ field_merged' =
                [ndarray |-> Concatenate([l \in DOMAIN field_out |-> field_out[l].ndarray]),
                 seq_length |-> merged]
          /\ field_out' = [field_out EXCEPT ![1].seq_length = merged]
    /\ UNCHANGED <<colVars, loader, sampler, bad, stream, sent_idx, recv_idx, buffer,
                   worker_queue, tasks, running, failed, fetcher, pool_state,
                   batch_idx, pc, topup_left, out, pass_log, builder, coalVars,
                   lock, cache, config, field_in, pairs>>

\* ------------------------------------------- construction, reset(), iter()
\* the constructor calls: DataLoader(...) or DataLoaderBuilder(...), over a
\* dataset of either mode, with or without a sampler
LifeArgs ==
    [via : {"DataLoader", "DataLoaderBuilder"},
     mode : {"indexable", "iterable"},
     has_sampler : BOOLEAN,
     groups : 0..MaxLifeGroups,
     num_workers : 0..MaxWorkers,
     num_devices : 0..2,
     places : 0..2,
     buffer_size : {1},
     trainers_env : BOOLEAN,
     need_seeding : {FALSE},
     batch_size : BatchSizes,
     auto_reset : BOOLEAN]

\* DataLoader.__init__ called directly: the fields it stores
DirectLoader(a) ==
    [mode |-> a.mode,
     num_workers |-> a.num_workers,
     queue_depth |-> a.buffer_size,
     rank |-> 0,
     need_seeding |-> a.need_seeding,
     callback |-> FALSE,
     batch_size |-> a.batch_size]

\* before the constructor call
LifeInit ==
    /\ Unbuilt
    /\ ColIdle
    /\ pc = "new"
    /\ builder = [auto_reset |-> FALSE, places |-> 0]
    /\ cpc = "direct"
    /\ lock = "free"
    /\ cache = <<>>
    /\ field_in = <<>>
    /\ field_out = <<>>
    /\ field_merged = None
    /\ pairs = EmptyMap
    /\ \E a \in LifeArgs :
         /\ a.has_sampler \/ a.groups = 0
         /\ IF a.via = "DataLoader"
            THEN a.places = 0 /\ a.num_devices = 0 /\ ~a.auto_reset /\ a.trainers_env
            ELSE a.places >= 1 /\ a.num_devices \in {0, a.places}
         /\ config = a

\* the sampler-is-required assertion at the end of DataLoader.__init__
\* (DataLoaderBuilder.__init__ reaches it through super().__init__)
SamplerAccepted(a) == a.has_sampler \/ a.mode /= "indexable"

\* the constructor: AssertionError, or the loader with its fields
Construct ==
    /\ pc = "new"
    /\ IF SamplerAccepted(config)
       THEN /\ pc' = "built"
            /\ loader' = IF config.via = "DataLoader"
                         THEN DirectLoader(config) ELSE BuilderLoader(config)
            /\ sampler' = IF config.has_sampler
                          THEN [len |-> config.groups, step |-> 0] ELSE None
            /\ builder' = [auto_reset |-> config.auto_reset, places |-> config.places]
       ELSE /\ pc' = "rejected"
            /\ UNCHANGED <<loader, sampler, builder>>
    /\ UNCHANGED <<colVars, bad, stream, sent_idx, recv_idx, buffer, worker_queue, tasks,
                   running, failed, fetcher, pool_state, batch_idx, topup_left,
                   out, pass_log, coalVars, extVars>>

\* DataLoader.reset() before the first iteration
ResetCall ==
    /\ pc = "built"
    /\ pc' = "rearmed"
    /\ sampler' = IF sampler /= None THEN SamplerReset(sampler) ELSE sampler
    /\ UNCHANGED <<colVars, loader, bad, stream, sent_idx, recv_idx, buffer, worker_queue,
                   tasks, running, failed, fetcher, pool_state, batch_idx,
                   topup_left, out, pass_log, builder, coalVars, extVars>>

\* iter(loader): both iterators start with iter(loader.sampler), which is a
\* TypeError on None (before the pool is made); DataLoaderBuilder.__iter__
\* keeps the iterator in self._iter and is stepped through its own __next__
IterCall ==
    /\ pc \in {"built", "rearmed"}
    /\ IF sampler = None
       THEN /\ pc' = "type_error"
            /\ UNCHANGED <<sampler, tasks, sent_idx, pool_state, fetcher, cpc>>
       ELSE /\ pc' = "idle"
            /\ LET st == IterState(loader, sampler)
               IN /\ sampler' = st.sampler
                  /\ tasks' = st.tasks
                  /\ sent_idx' = st.sent_idx
                  /\ pool_state' = st.pool_state
            /\ fetcher' = [pc |-> "get", item |-> None]
            /\ cpc' = IF config.via = "DataLoader" THEN "direct" ELSE "ready"
    /\ UNCHANGED <<colVars, loader, bad, stream, recv_idx, buffer, worker_queue, running,
                   failed, batch_idx, topup_left, out, pass_log, builder, lane,
                   feed_list, extras, drained, steps, extVars>>

\* ------------------------------------------------------------------ mixup
\* a chain with use_mixup over a dataset of either mode; an indexable one has
\* one sample per index group, and may expose its raw samples as .samples
MixupLoaders ==
    [mode : {"indexable", "iterable"},
     num_workers : 0..MaxWorkers,
     queue_depth : 1..MaxQueueDepth,
     rank : {0},
     need_seeding : {FALSE},
     callback : {FALSE},
     batch_size : {1},
     use_mixup : {TRUE},
     has_samples : BOOLEAN]

\* an entry of dataset.samples that has no 'image' key
NoImage == -1

\* len(dataset)
DatasetLen == sampler.len * loader.batch_size

\* np.delete(np.arange(len(dataset)), idx): what idx2 is chosen from
SecondChoices(idx, n) == (0..(n - 1)) \ {idx}

\* the pair _apply_transform hands to the chain: the primary sample, and
\* sample2 with the index of the file its 'image' was read from
ApplyMixup(i, j, image, batch_seed) ==
    [src |-> i, batch_seed |-> batch_seed, second |-> [src |-> j, image |-> image]]

MixupInit ==
    /\ \E ld \in MixupLoaders, k \in 1..MaxMixSamples :
         /\ ld.mode = "indexable" => k >= 2
         /\ ld.mode = "iterable" => ~ld.has_samples
         /\ InitWith(ld, k, {})
         /\ cache = IF ld.has_samples
                    THEN [j \in 0..(k * ld.batch_size - 1) |-> NoImage] ELSE <<>>
    /\ builder = [auto_reset |-> FALSE, places |-> 0]
    /\ cpc = "direct"
    /\ lock = "free"
    /\ config = None
    /\ ColIdle
    /\ field_in = <<>>
    /\ field_out = <<>>
    /\ field_merged = None
    /\ pairs = EmptyMap

\* _apply_transform in a pool worker: the assertion fails (use_mixup on a
\* dataset that is not indexable), before anything is read from the dataset;
\* the task ends with the AssertionError kept in its AsyncResult
WorkerAssert ==
    \E w \in running :
      /\ Len(w.samples) < Len(w.ticket.ids)
      /\ loader.use_mixup
      /\ loader.mode /= "indexable"
      /\ running' = running \ {w}
      /\ failed' = failed \cup {w.ticket.idx}
      /\ UNCHANGED <<colVars, loader, sampler, bad, stream, sent_idx, recv_idx, buffer,
                     worker_queue, tasks, fetcher, pool_state, batch_idx, pc,
                     topup_left, out, pass_log, builder, coalVars, extVars>>

\* _apply_transform in a pool worker, up to the transform call: idx2 is
\* chosen; with dataset.samples, sample2 is the cached entry itself and its
\* 'image' key is set to the image read from the primary sample's file
WorkerPair ==
    \E w \in running :
      /\ Len(w.samples) < Len(w.ticket.ids)
      /\ loader.use_mixup
      /\ loader.mode = "indexable"
      /\ w.ticket.idx \notin DOMAIN pairs
      /\ LET i == w.ticket.ids[Len(w.samples) + 1]
         IN \E j \in SecondChoices(i, DatasetLen) :
              /\ pairs' = [t \in DOMAIN pairs \cup {w.ticket.idx} |->
                             IF t = w.ticket.idx THEN j ELSE pairs[t]]
              /\ cache' = IF loader.has_samples THEN [cache EXCEPT ![j] = i] ELSE cache
      /\ UNCHANGED <<colVars, loader, sampler, bad, stream, sent_idx, recv_idx, buffer,
                     worker_queue, tasks, running, failed, fetcher, pool_state,
                     batch_idx, pc, topup_left, out, pass_log, builder, coalVars,
                     lock, config, field_in, field_out, field_merged>>

\* _apply_transform in a pool worker: transform((sample, sample2)), which
\* reads sample2 as it is at that moment
WorkerMixup ==
    \E w \in running :
      /\ w.ticket.idx \in DOMAIN pairs
      /\ LET i == w.ticket.ids[Len(w.samples) + 1]
             j == pairs[w.ticket.idx]
             image == IF loader.has_samples THEN cache[j] ELSE j
         IN running' = (running \ {w}) \cup
                         {[w EXCEPT !.samples =
                             Append(@, ApplyMixup(i, j, image, w.ticket.batch_seed))]}
      /\ pairs' = [t \in DOMAIN pairs \ {w.ticket.idx} |-> pairs[t]]
      /\ UNCHANGED <<colVars, loader, sampler, bad, stream, sent_idx, recv_idx, buffer,
                     worker_queue, tasks, failed, fetcher, pool_state, batch_idx,
                     pc, topup_left, out, pass_log, builder, coalVars,
                     lock, cache, config, field_in, field_out, field_merged>>

\* dataset.samples after the _apply_transform calls of one batch, in order
RECURSIVE CacheAfter(_, _, _, _)
CacheAfter(c, ids, js, p) ==
    IF p > Len(ids)
    THEN c
    ELSE CacheAfter([c EXCEPT ![js[p]] = ids[p]], ids, js, p + 1)

\* _SingleWorkerLoaderIter.__next__ with a mixup chain
SingleNextMixup ==
    /\ ~IsPooled(loader)
    /\ loader.use_mixup
    /\ pc \in {"idle", "stopped"}
    /\ cpc \in Callers
    /\ cpc' = AfterCall(cpc)
    /\ LET ids == SamplerNext(sampler, loader.batch_size)
       IN IF ids = None
          THEN /\ pc' = "stopped"
               /\ UNCHANGED <<sampler, batch_idx, out, cache>>
          ELSE IF loader.mode /= "indexable"
          THEN /\ pc' = "fault"
               /\ sampler' = SamplerAdvance(sampler)
               /\ UNCHANGED <<batch_idx, out, cache>>
          ELSE \E js \in [DOMAIN ids -> 0..(DatasetLen - 1)] :
                 /\ \A p \in DOMAIN ids : js[p] \in SecondChoices(ids[p], DatasetLen)
                 /\ pc' = "idle"
                 /\ sampler' = SamplerAdvance(sampler)
                 /\ batch_idx' = batch_idx + 1
                 /\ cache' = IF loader.has_samples
                             THEN CacheAfter(cache, ids, js, 1) ELSE cache
                 /\ out' = Append(out,
                       [key |-> batch_idx,
                        batch |-> Callback(loader, Batchify(ids,
                           [p \in DOMAIN ids |->
                              ApplyMixup(ids[p], js[p],
                                         IF loader.has_samples THEN ids[p] ELSE js[p],
                                         SingleBatchSeed(loader, batch_idx))]))])
    /\ UNCHANGED <<colVars, loader, bad, stream, sent_idx, recv_idx, buffer, worker_queue,
                   tasks, running, failed, fetcher, pool_state, topup_left,
                   pass_log, builder, lane, feed_list, extras, drained, steps,
                   lock, config, field_in, field_out, field_merged, pairs>>

\* ---------------------------------------------------- the buffer's lock
\* a pooled loader, its steps taken one lock operation at a time
LockInit ==
    /\ \E ld \in Loaders("indexable"), k \in 0..MaxGroups :
         /\ IsPooled(ld)
         /\ ld.rank = 0
         /\ ~ld.need_seeding
         /\ ~ld.callback
         /\ InitWith(ld, k, {})
    /\ builder = [auto_reset |-> FALSE, places |-> 0]
    /\ cpc = "direct"
    /\ ExtIdle

\* mutant: the fetcher goes on to the store without taking the lock
FetcherAcquireSkipped ==
    /\ fetcher.pc = "insert"
    /\ fetcher' = [fetcher EXCEPT !.pc = "locked"]
    /\ UNCHANGED <<colVars, loader, sampler, bad, stream, sent_idx, recv_idx, buffer,
                   worker_queue, tasks, running, failed, pool_state, batch_idx, pc,
                   topup_left, out, pass_log, builder, coalVars, extVars>>

\* _fetcher_loop_fn: `with buffer_lock:` is entered
FetcherAcquire ==
    /\ fetcher.pc = "insert"
    /\ lock = "free"
    /\ lock' = "fetcher"
    /\ fetcher' = [fetcher EXCEPT !.pc = "locked"]
    /\ UNCHANGED <<colVars, loader, sampler, bad, stream, sent_idx, recv_idx, buffer,
                   worker_queue, tasks, running, failed, pool_state, batch_idx, pc,
                   topup_left, out, pass_log, builder, coalVars, cache, config,
                   field_in, field_out, field_merged, pairs>>

\* _fetcher_loop_fn: out_buffer[idx] = result, and the with block is left
FetcherStore ==
    /\ fetcher.pc = "locked"
    /\ buffer' = [i \in DOMAIN buffer \cup {fetcher.item.idx} |->
                    IF i = fetcher.item.idx THEN fetcher.item.result ELSE buffer[i]]
    /\ fetcher' = [pc |-> "get", item |-> None]
    /\ lock' = "free"
    /\ UNCHANGED <<colVars, loader, sampler, bad, stream, sent_idx, recv_idx, worker_queue,
                   tasks, running, failed, pool_state, batch_idx, pc, topup_left,
                   out, pass_log, builder, coalVars, cache, config, field_in,
                   field_out, field_merged, pairs>>

\* __next__: `if self._recv_idx in self._buffer` is true (read without the lock)
MultiSee ==
    /\ pc = "wait"
    /\ ReadyKeys(buffer, recv_idx) /= {}
    /\ pc' = "acquire"
    /\ UNCHANGED <<colVars, loader, sampler, bad, stream, sent_idx, recv_idx, buffer,
                   worker_queue, tasks, running, failed, fetcher, pool_state,
                   batch_idx, topup_left, out, pass_log, builder, coalVars, extVars>>

\* __next__: `with self._buffer_lock:` is entered
MultiAcquire ==
    /\ pc = "acquire"
    /\ lock = "free"
    /\ lock' = "consumer"
    /\ pc' = "pop"
    /\ UNCHANGED <<colVars, loader, sampler, bad, stream, sent_idx, recv_idx, buffer,
                   worker_queue, tasks, running, failed, fetcher, pool_state,
                   batch_idx, topup_left, out, pass_log, builder, coalVars, cache,
                   config, field_in, field_out, field_merged, pairs>>

\* __next__: self._buffer.pop(self._recv_idx) (KeyError when it is absent),
\* the with block is left, recv_idx += 1, and the batch is returned
MultiPop ==
    /\ pc = "pop"
    /\ lock' = "free"
    /\ IF recv_idx \in DOMAIN buffer
       THEN /\ out' = Append(out, [key |-> recv_idx, batch |-> buffer[recv_idx]])
            /\ buffer' = [i \in DOMAIN buffer \ {recv_idx} |-> buffer[i]]
            /\ recv_idx' = recv_idx + 1
            /\ pc' = "idle"
       ELSE /\ pc' = "key_error"
            /\ UNCHANGED <<out, buffer, recv_idx>>
    /\ UNCHANGED <<colVars, loader, sampler, bad, stream, sent_idx, worker_queue, tasks,
                   running, failed, fetcher, pool_state, batch_idx, topup_left,
                   pass_log, builder, coalVars, cache, config, field_in, field_out,
                   field_merged, pairs>>

\* ------------------------------------------- collation and batch transforms
\* the fields every sample of a batch carries
SampleFields == {"image", "gt_box"}

\* the user-declared batch transforms, by name
UserTransforms == {"PadBatch", "RandomShape"}

\* the sequences of at most n entries of s
SeqsUpTo(s, n) == UNION {[1..k -> s] : k \in 0..n}

\* the for loop of _Batchify.__call__ over the samples: every value is
\* appended to the list of its field
RECURSIVE Collate(_, _)
Collate(batch, batch_dict_so_far) ==
    IF batch = <<>>
    THEN batch_dict_so_far
    ELSE LET sample == Head(batch)
             keys == DOMAIN batch_dict_so_far \cup DOMAIN sample
         IN Collate(Tail(batch),
                    [k \in keys |->
                       IF k \in DOMAIN sample
                       THEN Append(IF k \in DOMAIN batch_dict_so_far
                                   THEN batch_dict_so_far[k] ELSE <<>>,
                                   sample[k])
                       ELSE batch_dict_so_far[k]])

\* mutant: the Field Extractor is put in front of the declared transforms
BatchifyTransformsExtractFirst(a) ==
    IF a.via = "DataLoader"
    THEN a.batch_transforms
    ELSE <<"ExtractFields">> \o a.batch_transforms

\* the transforms _Batchify is constructed with: DataLoader passes
\* batch_transforms on, DataLoaderBuilder passes batch_transforms + [extract]
BatchifyTransforms(a) ==
    IF a.via = "DataLoader"
    THEN a.batch_transforms
    ELSE a.batch_transforms \o <<"ExtractFields">>

\* ExtractFields._normalize: a string names its one field at depth 0; a
\* mapping without 'fields' has its name as its one field ('fields' absent is
\* fields = <<>> here)
Normalize(var, extra) ==
    IF var.form = "str"
    THEN [name |-> var.name, fields |-> <<var.name>>, lod_level |-> 0,
          extra |-> extra]
    ELSE [name |-> var.name,
          fields |-> IF var.fields = <<>> THEN <<var.name>> ELSE var.fields,
          lod_level |-> var.lod_level,
          extra |-> extra]

\* the field loop of ExtractFields.__call__: what arr_list holds after it.
\* At depth 0 the field's list is appended, stacked for a feed var or for
\* combined fields; at a greater depth only a feed var appends (its flat)
RECURSIVE ArrList(_, _, _)
ArrList(var, fields, batch) ==
    IF fields = <<>>
    THEN <<>>
    ELSE LET arr == batch[Head(fields)]
             rest == ArrList(var, Tail(fields), batch)
         IN IF var.lod_level = 0
            THEN <<[form |-> IF ~var.extra \/ Len(var.fields) > 1
                             THEN "array" ELSE "list",
                     data |-> arr]>> \o rest
            ELSE IF ~var.extra
            THEN <<[form |-> "list",
                     data |-> Flatten(arr, var.lod_level + 1).flat]>> \o rest
            ELSE rest

\* np.column_stack of the fields' arrays: row i holds the fields' i-th entries
ColumnStack(arr_list) ==
    [form |-> "array",
     data |-> [i \in DOMAIN arr_list[1].data |->
                 [j \in DOMAIN arr_list |-> arr_list[j].data[i]]]]

\* what the call made of a var that raised
Raised(var, error) ==
    [status |-> error, target |-> "none", name |-> var.name,
     ndarray |-> [form |-> "none", data |-> <<>>], cast |-> FALSE,
     seq_length |-> None]

\* ExtractFields.__call__ for one normalized var (yolo_class_fix off): the
\* mapping the name is put in, and the value; arr_list[0] of an empty arr_list
\* raises IndexError, np.broadcast_arrays() of none leaves column_stack
\* nothing to stack
ExtractVar(var, batch) ==
    LET arr_list == ArrList(var, var.fields, batch)
        last == var.fields[Len(var.fields)]
    IN IF Len(var.fields) = 1 /\ arr_list = <<>>
       THEN Raised(var, "IndexError")
       ELSE IF arr_list = <<>>
       THEN Raised(var, "ValueError")
       ELSE LET ndarray == IF Len(var.fields) = 1
                           THEN arr_list[1]
                           ELSE IF var.extra
                           THEN [form |-> "list",
                                 data |-> <<ColumnStack(arr_list).data>>]
                           ELSE ColumnStack(arr_list)
            IN IF var.extra
               THEN [status |-> "ok", target |-> "extra", name |-> var.name,
                     ndarray |-> ndarray, cast |-> FALSE, seq_length |-> None]
               ELSE [status |-> "ok", target |-> "feed", name |-> var.name,
                     ndarray |-> [form |-> "array", data |-> ndarray.data],
                     cast |-> TRUE,
                     seq_length |->
                       IF var.lod_level = 0
                       THEN None
                       ELSE Tail(Flatten(batch[last],
                                         var.lod_level + 1).seq_length)]

\* the output specs a loader is declared with: a field by its name, a mapping
\* with a depth, a mapping that combines two fields
DeclaredVars ==
    {[form |-> "str", name |-> "gt_box", fields |-> <<>>, lod_level |-> 0]}
      \cup {[form |-> "dict", name |-> "gt_box", fields |-> <<>>,
             lod_level |-> l] : l \in CollateLodLevels}
      \cup {[form |-> "dict", name |-> "im_info",
             fields |-> <<"image", "gt_box">>, lod_level |-> l] :
              l \in CollateLodLevels}

\* the samples a group of n transformed samples can be: 'image' is an array,
\* 'gt_box' a ragged value of the var's depth; every leaf names its sample
CollateSamples(n, lod_level) ==
    {[i \in 1..n |->
        [image |-> <<i, 0>>, gt_box |-> Label(shapes[i], lod_level, <<i>>)]] :
       shapes \in [1..n -> Shapes(lod_level)]}

\* _Batchify is about to be called by an iterator on a group of samples
CollateInit ==
    /\ Unbuilt
    /\ pc = "none"
    /\ builder = [auto_reset |-> FALSE, places |-> 0]
    /\ cpc = "direct"
    /\ lock = "free"
    /\ cache = <<>>
    /\ pairs = EmptyMap
    /\ field_in = <<>>
    /\ field_out = <<>>
    /\ field_merged = None
    /\ \E via \in {"DataLoader", "DataLoaderBuilder"},
          batch_transforms \in SeqsUpTo(UserTransforms, MaxBatchTransforms),
          var \in DeclaredVars, extra \in BOOLEAN, n \in 1..MaxCollate :
         \* a loader made without the builder has no output specs
         /\ via = "DataLoader" => var.form = "str" /\ ~extra
         \* the flats of two ragged fields are not combined
         /\ (Len(Normalize(var, extra).fields) > 1 /\ ~extra) =>
              var.lod_level = 0
         /\ config = [via |-> via, batch_transforms |-> batch_transforms,
                      var |-> var, extra |-> extra]
         /\ samples_in \in CollateSamples(n, var.lod_level)
    /\ batch_dict = None
    /\ chain = <<>>
    /\ extracted = None

\* _Batchify.__call__ up to its for loop over the transforms
BatchifyCollate ==
    /\ batch_dict = None
    /\ batch_dict' = [fields |-> Collate(samples_in, EmptyMap),
                      applied |-> <<>>]
    /\ chain' = BatchifyTransforms(config)
    /\ UNCHANGED <<loader, sampler, bad, stream, sent_idx, recv_idx, buffer,
                   worker_queue, tasks, running, failed, fetcher, pool_state,
                   batch_idx, pc, topup_left, out, pass_log, builder, coalVars,
                   extVars, samples_in, extracted>>

\* one turn of the for loop: batch_dict = transform(batch_dict). A declared
\* transform hands the mapping on; ExtractFields returns (feed_dict,
\* extra_dict), or raises
BatchifyTransform ==
    /\ batch_dict /= None
    /\ chain /= <<>>
    /\ IF extracted = None THEN TRUE ELSE extracted.status = "ok"
    /\ batch_dict' = [batch_dict EXCEPT !.applied = Append(@, Head(chain))]
    /\ chain' = Tail(chain)
    /\ extracted' = IF Head(chain) = "ExtractFields"
                    THEN ExtractVar(Normalize(config.var, config.extra),
                                    batch_dict.fields)
                    ELSE extracted
    /\ UNCHANGED <<loader, sampler, bad, stream, sent_idx, recv_idx, buffer,
                   worker_queue, tasks, running, failed, fetcher, pool_state,
                   batch_idx, pc, topup_left, out, pass_log, builder, coalVars,
                   extVars, samples_in>>

\* ------------------------------------------------ the pooled iterator alone
\* a pooled loader whose chain raises on no sample
ProgressInit ==
    /\ \E ld \in Loaders("indexable"), k \in 0..MaxGroups :
         /\ IsPooled(ld)
         /\ ld.rank = 0
         /\ ~ld.need_seeding
         /\ ~ld.callback
         /\ InitWith(ld, k, {})
    /\ builder = [auto_reset |-> FALSE, places |-> 0]
    /\ cpc = "direct"
    /\ ExtIdle

\* ---------------------------------------------------------- specifications
IterNext ==
    \/ WorkerTake
    \/ WorkerApply
    \/ WorkerPut
    \/ FetcherGet
    \/ FetcherInsert
    \/ MultiNextBegin
    \/ MultiTopUp
    \/ MultiCheck
    \/ MultiReceive
    \/ SingleNext

\* a DataLoader iterated by its consumer
Next ==
    \/ IterNext
    \/ IterAgain

Spec == Init /\ [][Next]_vars

StreamSpec == StreamInit /\ [][Next]_vars

\* the same, where the consumer may also drop the loader, and with the
\* scheduling the runtime gives: a runnable thread (the consumer inside
\* next(), a pool worker, the fetcher) eventually takes its step
FairNext ==
    \/ Next
    \/ Abandon

FairSpec ==
    /\ Init
    /\ [][FairNext]_vars
    /\ WF_vars(WorkerTake)
    /\ WF_vars(WorkerApply)
    /\ WF_vars(WorkerPut)
    /\ WF_vars(FetcherGet)
    /\ WF_vars(FetcherInsert)
    /\ WF_vars(MultiTopUp)
    /\ WF_vars(MultiCheck)
    /\ WF_vars(MultiReceive)

\* a DataLoaderBuilder stepped by the training loop
CoalNext ==
    \/ IterNext
    \/ CoalBegin
    \/ CoalGot
    \/ CoalReset
    \/ CoalDrain
    \/ CoalRaise
    \/ CoalFinish

CoalSpec == CoalInit /\ [][CoalNext]_vars

\* the pooled iterator without failures, under the scheduling of FairSpec
ProgressNext ==
    \/ WorkerTake
    \/ WorkerApply
    \/ WorkerPut
    \/ FetcherGet
    \/ FetcherInsert
    \/ MultiNextBegin
    \/ MultiTopUp
    \/ MultiCheck
    \/ MultiReceive

ProgressSpec ==
    /\ ProgressInit
    /\ [][ProgressNext]_vars
    /\ WF_vars(WorkerTake)
    /\ WF_vars(WorkerApply)
    /\ WF_vars(WorkerPut)
    /\ WF_vars(FetcherGet)
    /\ WF_vars(FetcherInsert)
    /\ WF_vars(MultiTopUp)
    /\ WF_vars(MultiCheck)
    /\ WF_vars(MultiReceive)

\* the pooled iterator with the lock operations as steps of their own
LockNext ==
    \/ WorkerTake
    \/ WorkerApply
    \/ WorkerPut
    \/ FetcherGet
    \/ FetcherAcquire
    \/ FetcherStore
    \/ MultiNextBegin
    \/ MultiTopUp
    \/ MultiCheck
    \/ MultiSee
    \/ MultiAcquire
    \/ MultiPop

LockSpec == LockInit /\ [][LockNext]_vars

\* a loader whose chain uses mixup, with the scheduling of FairSpec
MixupNext ==
    \/ WorkerTake
    \/ WorkerAssert
    \/ WorkerPair
    \/ WorkerMixup
    \/ WorkerPut
    \/ FetcherGet
    \/ FetcherInsert
    \/ MultiNextBegin
    \/ MultiTopUp
    \/ MultiCheck
    \/ MultiReceive
    \/ SingleNextMixup

MixupSpec ==
    /\ MixupInit
    /\ [][MixupNext]_vars
    /\ WF_vars(WorkerTake)
    /\ WF_vars(WorkerAssert)
    /\ WF_vars(WorkerPair)
    /\ WF_vars(WorkerMixup)
    /\ WF_vars(WorkerPut)
    /\ WF_vars(FetcherGet)
    /\ WF_vars(FetcherInsert)
    /\ WF_vars(MultiTopUp)
    /\ WF_vars(MultiCheck)
    /\ WF_vars(MultiReceive)

\* a loader from its constructor call on
LifeNext ==
    \/ Construct
    \/ ResetCall
    \/ IterCall
    \/ CoalNext

LifeSpec == LifeInit /\ [][LifeNext]_vars

\* one ragged field through ExtractFields and the coalescing of a drained step
FieldNext ==
    \/ ExtractLane
    \/ CoalesceField

FieldSpec == FieldInit /\ [][FieldNext]_vars

\* _Batchify.__call__ on one group of samples
CollateNext ==
    \/ BatchifyCollate
    \/ BatchifyTransform

CollateSpec == CollateInit /\ [][CollateNext]_vars

\* ------------------------------------------------------------ properties
\* the batch the chain builds from the k-th index group of a pass of an
\* indexable dataset: sample j is dataset[ids[j]]
SourcesOf(batch) == [j \in DOMAIN batch.samples |-> batch.samples[j].src]

BuiltFromGroup(batch, k) ==
    /\ batch.ids = GroupOf(k, loader.batch_size)
    /\ SourcesOf(batch) = GroupOf(k, loader.batch_size)

\* C1: in the pooled iterator the k-th successful next() call returns the
\* result popped under sequence id k-1, which is the batch built from the
\* k-th index group of the sampler; a result that is complete before its turn
\* stays in the buffer, under its own id, until recv_idx reaches it.
C1_OrderedDelivery ==
    IsPooled(loader) =>
      /\ \A k \in 1..Len(out) :
           /\ out[k].key = k - 1
           /\ BuiltFromGroup(out[k].batch, k)
      /\ \A i \in DOMAIN buffer :
           /\ recv_idx <= i
           /\ i < sent_idx
           /\ BuiltFromGroup(buffer[i], i + 1)

\* a later ticket's result waits in the buffer while the expected one is
\* still missing, after a batch was delivered
C1_Witness ==
    /\ IsPooled(loader)
    /\ Len(out) >= 1
    /\ pc = "wait"
    /\ recv_idx \notin DOMAIN buffer
    /\ recv_idx + 1 \in DOMAIN buffer

\* C3: the tickets dispatched and not yet delivered (sent_idx - recv_idx) are
\* between 0 and queue_depth + 1 in every state of the pooled iterator, and
\* the buffer never holds more results than that.
C3_BoundedInFlight ==
    IsPooled(loader) =>
      /\ 0 <= sent_idx - recv_idx
      /\ sent_idx - recv_idx <= loader.queue_depth + 1
      /\ Cardinality(DOMAIN buffer) <= sent_idx - recv_idx

\* the top-up of a next() call has filled the window, right after a delivery
C3_Witness ==
    /\ IsPooled(loader)
    /\ recv_idx >= 1
    /\ sent_idx - recv_idx = loader.queue_depth + 1
    /\ pc = "topup"

\* C4: the pooled iterator signals end-of-stream only when the sampler has no
\* index group left and every ticket of the pass was delivered to the
\* consumer; nothing is then left in the pool, the queue, the fetcher or the
\* buffer, and the assertion of __next__ never fails.
C4_EndOfStreamDrained ==
    IsPooled(loader) =>
      /\ pc /= "assert_failed"
      /\ pc = "stopped" =>
           /\ sampler.step = sampler.len
           /\ Len(out) = sent_idx
           /\ DOMAIN buffer = {}
           /\ tasks = <<>>
           /\ running = {}
           /\ worker_queue = <<>>
           /\ fetcher.pc = "get"

\* end-of-stream after three delivered batches with two workers
C4_Witness ==
    /\ loader.num_workers >= 2
    /\ pc = "stopped"
    /\ Len(out) >= 3

\* the run of the single-threaded iterator from a state: the batches its
\* __next__ calls return until one of them raises, and what that one raises
RECURSIVE SingleRunFrom(_, _, _, _, _, _)
SingleRunFrom(ld, s, pos, bidx, badset, acc) ==
    LET st == SingleNextState(ld, s, pos, bidx, badset)
    IN IF st.pc = "idle"
       THEN SingleRunFrom(ld, st.sampler, st.stream, st.batch_idx, badset,
                          Append(acc, st.batch))
       ELSE [batches |-> acc, end |-> st.pc]

\* C2: what the pooled iterator returns in a pass is what the single-threaded
\* iterator returns over the same dataset and sampler sequence: the same
\* batches (ids, samples, seed, callback) in the same order, and end-of-stream
\* after the same number of batches.
C2_RegimesIndistinguishable ==
    (IsPooled(loader) /\ pass_log = <<>>) =>
      LET ref == SingleRunFrom(loader, SamplerReset(sampler), 0, 0, bad, <<>>)
      IN /\ Len(out) <= Len(ref.batches)
         /\ \A k \in 1..Len(out) : out[k].batch = ref.batches[k]
         /\ pc = "stopped" => (Len(out) = Len(ref.batches) /\ ref.end = "stopped")

\* C5: when a transform raises while ticket s is processed, the next() call
\* that waits for sequence id s ends with that fault (in the single-threaded
\* iterator the exception leaves __next__ at once: pc = "fault").
C5_FaultSurfaces ==
    (pc = "wait" /\ recv_idx \in failed) ~> (pc = "fault")

\* C7: once a pooled iterator is exhausted, or dropped by its consumer, the
\* pool is shut down and the fetcher thread leaves its loop.
C7_TeardownGuaranteed ==
    (IsPooled(loader) /\ pc \in {"stopped", "abandoned"})
        ~> (pool_state /= "RUN" /\ fetcher.pc = "exit")

\* C6: without auto_reset, N places and a stream of K batches give K div N
\* steps of N per-place records built from N consecutive batches in place
\* order, then, when K mod N > 0, one step whose single record concatenates
\* the remaining batches' rows in order; no further step follows, and
\* end-of-stream is signalled only after all of these steps.
C6_CoalescedTail ==
    ~builder.auto_reset =>
      LET K == sampler.len
          N == builder.places
          bs == loader.batch_size
          full == K \div N
          rest == K % N
          total == IF rest > 0 THEN full + 1 ELSE full
      IN /\ cpc /= "error"
         /\ Len(steps) <= total
         /\ cpc = "stopped" => Len(steps) = total
         /\ \A j \in 1..Len(steps) :
              IF j <= full
              THEN /\ steps[j].kind = "per_lane"
                   /\ Len(steps[j].feed) = N
                   /\ \A l \in 1..N :
                        /\ steps[j].feed[l].place = l
                        /\ steps[j].feed[l].feed =
                             [i \in 1..bs |-> ((j - 1) * N + l - 1) * bs + i - 1]
              ELSE /\ steps[j].kind = "coalesced"
                   /\ steps[j].place = CPUPlace
                   /\ steps[j].feed = [i \in 1..(rest * bs) |-> full * N * bs + i - 1]

\* three places and seven batches: two full steps, a third step that
\* coalesces the one remaining batch, and the fourth call has ended the stream
C6_Witness ==
    /\ ~builder.auto_reset
    /\ builder.places = 3
    /\ sampler.len = 7
    /\ Len(steps) = 3
    /\ steps[3].kind = "coalesced"
    /\ Len(steps[3].feed) = loader.batch_size
    /\ cpc = "stopped"

\* C8: with auto_reset and a sampler that is not empty, a StopIteration met
\* while pulling for a place resets the sampler and the same place receives
\* the first batch of the new pass; every step returns one record per place,
\* no place is marked drained, and __next__ never raises StopIteration.
C8_AutoReset ==
    (builder.auto_reset /\ sampler.len >= 1) =>
      LET K == sampler.len
          N == builder.places
          bs == loader.batch_size
          \* the rows of the n-th batch pulled since the start (n = 1, 2, ...)
          rows(n) == [i \in 1..bs |-> ((n - 1) % K) * bs + i - 1]
      IN /\ cpc \notin {"stopped", "error"}
         /\ ~drained
         /\ (cpc = "retry" /\ pc = "idle") =>
                SourcesOf(out[Len(out)].batch) = [i \in 1..bs |-> i - 1]
         /\ \A j \in 1..Len(steps) :
              /\ steps[j].kind = "per_lane"
              /\ Len(steps[j].feed) = N
              /\ \A l \in 1..N :
                   /\ steps[j].feed[l].place = l
                   /\ steps[j].feed[l].feed = rows((j - 1) * N + l)
         /\ cpc \in {"call", "try", "recall", "retry", "finish"} =>
              \A l \in 1..Len(feed_list) :
                  feed_list[l].feed = rows(Len(steps) * N + l)

\* the second call in the except clause has returned, for the second place,
\* and an earlier step was completed
C8_Witness ==
    /\ builder.auto_reset
    /\ sampler.len >= 2
    /\ IsPooled(loader)
    /\ cpc = "retry"
    /\ pc = "idle"
    /\ lane = 2
    /\ Len(steps) >= 1

\* C9: after end-of-stream, reset() followed by a new iteration gives, in
\* both regimes, a pass with as many batches as the first one (one per index
\* group of the sampler), each built from its index group, in order.
C9_ResetThenIterate ==
    (pc = "stopped" /\ Len(pass_log) >= 1 /\ pass_log[Len(pass_log)].rearm) =>
      /\ Len(out) = pass_log[1].n
      /\ Len(out) = sampler.len
      /\ \A k \in 1..Len(out) : BuiltFromGroup(out[k].batch, k)

\* the second pass of a pooled loader has ended after three batches
C9_Witness ==
    /\ IsPooled(loader)
    /\ pc = "stopped"
    /\ Len(pass_log) = 1
    /\ pass_log[1].rearm
    /\ pass_log[1].n = 3
    /\ Len(out) = 3

RECURSIVE Sum(_)
Sum(lens) == IF lens = <<>> THEN 0 ELSE Head(lens) + Sum(Tail(lens))

\* items cut into consecutive runs of the given sizes
RECURSIVE Partition(_, _)
Partition(items, sizes) ==
    IF sizes = <<>>
    THEN <<>>
    ELSE <<SubSeq(items, 1, Head(sizes))>>
           \o Partition(SubSeq(items, Head(sizes) + 1, Len(items)), Tail(sizes))

\* the nested value the length lists describe: the flat entries are grouped
\* by the innermost list first, then by the next outer one, and so on
RECURSIVE Rebuild(_, _)
Rebuild(items, lens) ==
    IF lens = <<>>
    THEN items
    ELSE Rebuild(Partition(items, lens[Len(lens)]), SubSeq(lens, 1, Len(lens) - 1))

\* each list of lengths adds up to the number of entries of the next inner
\* list, and the innermost one to the number of flat entries
Describes(lens, ndarray) ==
    /\ \A d \in 1..(Len(lens) - 1) : Sum(lens[d]) = Len(lens[d + 1])
    /\ Sum(lens[Len(lens)]) = Len(ndarray)

\* C11: for a feed var with lod_level L > 0, ExtractFields returns the flat
\* leaves and exactly L length lists (the outermost one of _flatten, which is
\* [batch size], is dropped); grouping the leaves by these lists, innermost
\* first, gives back the batch's nested value, each list adds up to the
\* number of entries of the next inner one, and the innermost to the number
\* of leaves.
C11_ExtractRoundTrip ==
    config.lod_level > 0 =>
      \A l \in 1..Len(field_out) :
        (field_merged = None \/ l > 1) =>
          /\ Len(field_out[l].seq_length) = config.lod_level
          /\ Len(field_out[l].seq_length[1]) = Len(field_in[l])
          /\ Describes(field_out[l].seq_length, field_out[l].ndarray)
          /\ Rebuild(field_out[l].ndarray, field_out[l].seq_length) = field_in[l]

\* a batch of two samples of depth 2 was extracted: the first sample holds an
\* empty sequence followed by a sequence of two leaves
C11_Witness ==
    /\ config.lod_level = 2
    /\ Len(field_in) = 1
    /\ Len(field_out) = 1
    /\ Len(field_in[1]) = 2
    /\ field_out[1].seq_length = <<<<2, 1>>, <<0, 2, 1>>>>
    /\ Len(field_out[1].ndarray) = 3

\* C18: in a drained step with two or more places pulled, the coalesced
\* record of a field with nested lengths carries, at every level, the places'
\* length lists one after the other in place order; these lists describe the
\* concatenated array (they rebuild the places' samples in order, each level
\* adds up to the entry count of the next inner one and the innermost to the
\* number of rows); a field without nested lengths has none after coalescing.
C18_MergedLengthsDescribe ==
    field_merged /= None =>
      IF config.lod_level = 0
      THEN /\ field_merged.seq_length = None
           /\ field_merged.ndarray = Concatenate(field_in)
      ELSE /\ Len(field_merged.seq_length) = config.lod_level
           /\ \A d \in 1..config.lod_level :
                field_merged.seq_length[d] =
                  Concatenate([l \in DOMAIN field_in |->
                     Flatten(field_in[l], config.lod_level + 1).seq_length[d + 1]])
           /\ Describes(field_merged.seq_length, field_merged.ndarray)
           /\ Rebuild(field_merged.ndarray, field_merged.seq_length)
                = Concatenate(field_in)

\* two places with one sample of depth 2 each were coalesced; the samples
\* differ in shape
C18_Witness ==
    /\ field_merged /= None
    /\ config.lod_level = 2
    /\ Len(field_in) = 2
    /\ field_merged.seq_length = <<<<2, 1>>, <<1, 2, 0>>>>
    /\ Len(field_merged.ndarray) = 3

\* C12: a loader configured with num_workers = 0 iterates with the
\* single-threaded iterator and makes no pool, and one configured with
\* num_workers > 0 iterates with the pooled iterator, whether it is made by
\* DataLoader or by DataLoaderBuilder and whatever the number of places.
C12_RegimeFollowsWorkers ==
    pc \notin {"new", "rejected", "built", "rearmed", "type_error"} =>
      /\ config.num_workers = 0 => pool_state = "none"
      /\ config.num_workers > 0 => pool_state = "RUN"

\* C16: without a sampler, the constructor fails for an indexable dataset,
\* and for an iterable dataset the loader is accepted, its reset() does
\* nothing, and iter() and the next() calls meet no failure about the sampler.
C16_SamplerRequiredOnlyIndexable ==
    (pc /= "new" /\ ~config.has_sampler) =>
      IF config.mode = "indexable"
      THEN pc = "rejected"
      ELSE /\ pc \notin {"rejected", "type_error"}
           /\ sampler = None

\* C13: with a mixup chain over a dataset that is not indexable, the next()
\* call that is under way ends with the configuration error (in the pooled
\* iterator as in the single-threaded one).
C13_MixupConfigError ==
    (loader.mode = "iterable" /\ pc \in {"topup", "wait"}) ~> (pc = "fault")

\* C14: in thread-worker mode, no entry of the dataset is held by two
\* workers at once: two workers that are between the write of
\* sample2['image'] and the transform call never have the same sample2.
C14_ExclusiveOwnership ==
    loader.has_samples =>
      \A t1, t2 \in DOMAIN pairs : t1 /= t2 => pairs[t1] /= pairs[t2]

\* every sample of a batch: its second sample is another index's sample, image
\* included
PairedFromOther(batch) ==
    \A p \in DOMAIN batch.samples :
        /\ batch.samples[p].second.src /= batch.samples[p].src
        /\ batch.samples[p].second.image = batch.samples[p].second.src

\* C17: with mixup on an indexable dataset of two or more samples, the
\* second sample handed to the chain is the dataset's sample at an index
\* j /= i, with its own image, by plain indexing as well as from
\* dataset.samples, and the entries of dataset.samples stay as they were.
C17_SecondSampleIsOther ==
    loader.mode = "indexable" =>
      /\ \A k \in 1..Len(out) : PairedFromOther(out[k].batch)
      /\ \A i \in DOMAIN buffer : PairedFromOther(buffer[i])
      /\ \A j \in DOMAIN cache : cache[j] = NoImage

\* C15: the buffer changes only in a step of the thread that holds the lock
\* (an insertion by the fetcher, a removal by the consumer), and that step
\* ends the critical section; the fetcher holds the lock only between its
\* get and its next get, never while it waits on the queue, and whoever
\* holds the lock can always go on to release it; the consumer's pop never
\* meets an absent key.
C15_LockDiscipline ==
    /\ [](/\ lock = "fetcher" => (fetcher.pc = "locked" /\ ENABLED FetcherStore)
          /\ lock = "consumer" => (pc = "pop" /\ ENABLED MultiPop)
          /\ fetcher.pc = "locked" => lock = "fetcher"
          /\ pc = "pop" => (lock = "consumer" /\ recv_idx \in DOMAIN buffer)
          /\ pc /= "key_error")
    /\ [][buffer' /= buffer =>
            /\ lock' = "free"
            /\ IF DOMAIN buffer \subseteq DOMAIN buffer'
               THEN lock = "fetcher"
               ELSE lock = "consumer"]_vars

\* the consumer has seen its key and waits for the lock, which the fetcher
\* holds for the insertion of the next result
C15_Witness ==
    /\ lock = "fetcher"
    /\ pc = "acquire"
    /\ Len(out) >= 1
    /\ fetcher.item.idx = recv_idx + 1

\* C19: the auxiliary mapping a step returns holds, for the auxiliary
\* field, the values of the batches pulled in that step and no others, in
\* place order: for step j of a builder with N places these are the batches
\* (j-1)*N+1 .. of the stream (going round the sampler's K groups under
\* auto_reset), N of them in a full step and K mod N in the drained one.
C19_ExtrasOfPulledLanes ==
    LET K == sampler.len
        N == builder.places
        bs == loader.batch_size
        value(n) == IF builder.auto_reset THEN n % (K * bs) ELSE n
        pulled(j) == IF builder.auto_reset \/ j <= K \div N THEN N ELSE K % N
    IN /\ \A j \in 1..Len(steps) :
            steps[j].extra =
              [i \in 1..(pulled(j) * bs) |-> value((j - 1) * N * bs + i - 1)]
       /\ cpc \in {"call", "try", "recall", "retry", "finish"} =>
            extras = [i \in 1..(Len(feed_list) * bs) |->
                         value(Len(steps) * N * bs + i - 1)]

\* the second step of a pooled builder with 3 places went over the end of a
\* pass of 2 groups
C19_Witness ==
    /\ builder.auto_reset
    /\ IsPooled(loader)
    /\ builder.places = 3
    /\ sampler.len = 2
    /\ Len(steps) = 2
    /\ steps[2].extra = <<2, 3, 0, 1, 2, 3>>

\* C20: when no worker fails and the workers, the fetcher and the consumer
\* inside next() are scheduled fairly, every next() call of the pooled
\* iterator that has started comes to return a batch or to signal
\* end-of-stream, whatever queue_depth >= 1 and the number of workers >= 1.
C20_PooledProgress ==
    (pc \in {"topup", "wait"}) ~> (pc \in {"idle", "stopped"})

\* the consumer waits for recv_idx while the completion queue is full and a
\* worker with a finished batch is blocked in put
C20_Witness ==
    /\ pc = "wait"
    /\ recv_idx \notin DOMAIN buffer
    /\ QueueFull(loader, worker_queue)
    /\ \E w \in running : Len(w.samples) = Len(w.ticket.ids)
    /\ sent_idx - recv_idx = loader.queue_depth + 1

\* the list of the samples' values of a field, in the order _Batchify got them
InputOrder(k) == [i \in DOMAIN samples_in |-> samples_in[i][k]]

\* C21: once _Batchify has collated a group of samples that share their
\* fields, every field maps to the list of the samples' values in input order;
\* the batch transforms are then applied one by one in declared order, each
\* to the output of the one before; and in a loader built by DataLoaderBuilder
\* ExtractFields is applied last, after every declared batch transform.
C21_CollationOrder ==
    batch_dict /= None =>
      LET declared == config.batch_transforms
          applied == batch_dict.applied
          built == config.via = "DataLoaderBuilder"
      IN /\ DOMAIN batch_dict.fields = SampleFields
         /\ \A k \in SampleFields :
              /\ Len(batch_dict.fields[k]) = Len(samples_in)
              /\ batch_dict.fields[k] = InputOrder(k)
         /\ Len(applied) <= Len(declared) + (IF built THEN 1 ELSE 0)
         /\ \A j \in DOMAIN applied :
              IF j <= Len(declared)
              THEN applied[j] = declared[j]
              ELSE applied[j] = "ExtractFields"
         /\ (extracted /= None) <=>
              (built /\ Len(applied) = Len(declared) + 1)
         /\ chain = <<>> =>
              \/ Len(applied) = Len(declared) + (IF built THEN 1 ELSE 0)
              \/ IF extracted = None THEN FALSE ELSE extracted.status /= "ok"

\* a built loader has applied two different declared transforms and then
\* ExtractFields to a group of two samples
C21_Witness ==
    /\ batch_dict /= None
    /\ config.via = "DataLoaderBuilder"
    /\ Len(samples_in) = 2
    /\ Len(config.batch_transforms) = 2
    /\ config.batch_transforms[1] /= config.batch_transforms[2]
    /\ batch_dict.applied = config.batch_transforms \o <<"ExtractFields">>
    /\ chain = <<>>
    /\ IF extracted = None THEN FALSE ELSE extracted.status = "ok"

\* C22: for an auxiliary output spec of any depth ExtractFields completes
\* without an error, puts the spec's name in extra_dict and not in feed_dict,
\* and a spec of one field maps to the batch's list of that field as it is:
\* not flattened, not stacked, not cast.
C22_AuxiliaryStoredAsIs ==
    (extracted /= None /\ config.extra) =>
      LET var == Normalize(config.var, TRUE)
      IN /\ extracted.status = "ok"
         /\ extracted.target = "extra"
         /\ extracted.name = var.name
         /\ Len(var.fields) = 1 =>
              /\ extracted.ndarray =
                   [form |-> "list", data |-> InputOrder(var.fields[1])]
              /\ ~extracted.cast
              /\ extracted.seq_length = None


=============================================================================
